---- MODULE Spec2Model ----
(***************************************************************************)
(* Model of agent/src/tools.py: the fetchers, the name resolver, the nine  *)
(* presentation adapters and the best-match utility.                       *)
(*                                                                         *)
(* A tool invocation is a sequence of steps, one per outbound HTTP request *)
(* (protocol list, search, data endpoint) and a last one in which the      *)
(* adapter turns the fetcher's outcome into its return value.  The         *)
(* provider is the environment: the response to a URL is chosen when the   *)
(* URL is first requested and stays the same until the provider changes.   *)
(***************************************************************************)
EXTENDS Integers, Sequences, FiniteSets, TLC

VARIABLES
    pc,           \* position of the running invocation, "idle" between invocations
    tool,         \* adapter (or function) being executed
    query,        \* its free-text argument
    type,         \* kind argument handed to get_coingecko_id
    id,           \* get_protocol_tvl: slugs of the protocol list
    gecko,        \* get_protocol_tvl: gecko_ids of the protocol list
    coin_id,      \* resolved identifier (coin_id / nft_id / tag)
    protocol_id,  \* get_protocol_tvl: matched slug
    fetched,      \* outcome of the fetcher: a returned value or a raised exception
    sent,         \* URLs requested by the current (or last) invocation, in order
    errlog,       \* logging.error calls of the current (or last) invocation
    output,       \* what the invocation handed to its caller
    provider,     \* provider state: URL -> response, Unknown until first requested
    calls,        \* invocations completed since the provider last changed
    history,      \* first outcome per (tool, query) since the provider last changed
    sim_cos,      \* get_most_similar: cosine similarity score per candidate
    sim_ratio,    \* get_most_similar: SequenceMatcher ratio per candidate
    sim_order,    \* get_most_similar: how argsort orders equal scores
    sim_res,      \* get_most_similar: narrowed candidates (indices into data)
    sim_out       \* get_most_similar: index of the returned candidate, 0 before the call

vars == <<pc, tool, query, type, id, gecko, coin_id, protocol_id, fetched, sent,
          errlog, output, provider, calls, history,
          sim_cos, sim_ratio, sim_order, sim_res, sim_out>>

toolVars == <<pc, tool, query, type, id, gecko, coin_id, protocol_id, fetched, sent,
              errlog, output, provider, calls, history>>

simVars == <<sim_cos, sim_ratio, sim_order, sim_res, sim_out>>

(***************************************************************************)
(* Bounds of the model.                                                    *)
(***************************************************************************)
\* invocations against one unchanged provider state
MaxInvocations == 2
\* longest candidate list handed to get_most_similar
MaxCandidates == 22
\* largest similarity score (scores are ranks 0..MaxScore)
MaxScore == 2

(***************************************************************************)
(* JSON values (and Python None, which JSON null decodes to).              *)
(***************************************************************************)
Null == [t |-> "null"]
Num(n) == [t |-> "num", n |-> n]
Str(s) == [t |-> "str", s |-> s]
List(items) == [t |-> "list", items |-> items]
NoFields == [k \in {} |-> Null]
Obj(f) == [t |-> "obj", f |-> f]

(***************************************************************************)
(* Outcome of a Python call: a returned value or a raised exception.       *)
(***************************************************************************)
Ret(v) == [kind |-> "return", value |-> v]
Raise(e) == [kind |-> "raise", exc |-> e]

\* requests.exceptions.RequestException and its subclasses
IsRequestException(e) == e \in {"ConnectionError", "HTTPError"}

\* bool(v)
Truthy(v) ==
    CASE v.t = "null" -> FALSE
      [] v.t = "num" -> v.n # 0
      [] v.t = "str" -> v.s # ""
      [] v.t = "list" -> Len(v.items) > 0
      [] v.t = "obj" -> DOMAIN v.f # {}

\* v[k] for a string key k
GetItem(v, k) ==
    IF v.t = "obj"
    THEN IF k \in DOMAIN v.f THEN Ret(v.f[k]) ELSE Raise("KeyError")
    ELSE Raise("TypeError")

\* v[0]
GetFirst(v) ==
    CASE v.t = "list" -> IF Len(v.items) > 0 THEN Ret(v.items[1]) ELSE Raise("IndexError")
      [] v.t = "obj" -> Raise("KeyError")
      [] OTHER -> Raise("TypeError")

\* v.get(k, default)
DictGet(v, k, default) ==
    IF v.t = "obj"
    THEN Ret(IF k \in DOMAIN v.f THEN v.f[k] ELSE default)
    ELSE Raise("AttributeError")

\* len(v)
PyLen(v) ==
    CASE v.t = "list" -> Ret(Num(Len(v.items)))
      [] v.t = "obj" -> Ret(Num(Cardinality(DOMAIN v.f)))
      [] OTHER -> Raise("TypeError")

(***************************************************************************)
(* The provider: URLs and the responses it may give.  A request ends in a  *)
(* connection error (requests.get raises), in a non-2xx status             *)
(* (raise_for_status raises) or in a 2xx response with a JSON body.        *)
(***************************************************************************)
Blockchain == "ethereum"
Queries == {"aave", "uniswap"}

Url(ep, arg) == [ep |-> ep, arg |-> arg]

BalanceUrl(wallet_address) == Url("wallet/balance", wallet_address)
TransactionsUrl(wallet_address) == Url("wallet/transactions", wallet_address)
GasFeesUrl(blockchain) == Url("gas-fees", blockchain)
MetadataUrl(token_id) == Url("tokens/metadata", token_id)
SearchUrl(text) == Url("search", text)
PriceUrl(cid) == Url("simple/price", cid)
NftUrl(nid) == Url("nfts", nid)
CoinUrl(cid) == Url("coins", cid)
MarketsUrl(cid) == Url("coins/markets", cid)
ProtocolsUrl == Url("protocols", "")
TvlUrl(slug) == Url("tvl", slug)

Entry(i) == Obj([id |-> Str(i)])
Protocol(slug, gid) == Obj([slug |-> Str(slug), gecko_id |-> gid])

CoinLists == {<<>>, <<Entry("aave")>>, <<Entry("btc"), Entry("aave")>>}
NftLists == {<<>>, <<Entry("punks")>>}

SearchBodies ==
    {Obj([coins |-> List(c), nfts |-> List(n)]) : c \in CoinLists, n \in NftLists}
    \cup {Obj([coins |-> List(c)]) : c \in CoinLists}
    \cup {Obj([nfts |-> List(n)]) : n \in NftLists}
    \cup {Obj(NoFields)}

ProtocolsBodies ==
    { List(<<>>),
      List(<<Protocol("aave-v3", Str("aave"))>>),
      List(<<Protocol("lido", Null), Protocol("aave-v2", Str("aave")),
             Protocol("aave-v3", Str("aave"))>>),
      List(<<Obj([slug |-> Str("aave-v3")])>>) }

Bodies(url) ==
    CASE url.ep = "wallet/balance" ->
            {Obj(NoFields), Obj([balance |-> Null]), Obj([balance |-> Num(0)]),
             Obj([balance |-> Num(5)])}
      [] url.ep = "wallet/transactions" ->
            {Obj(NoFields), Obj([transactions |-> Null]),
             Obj([transactions |-> List(<<>>)]),
             Obj([transactions |-> List(<<Str("tx1")>>)])}
      [] url.ep = "gas-fees" ->
            {Obj(NoFields), Obj([fees |-> Null]), Obj([fees |-> Obj(NoFields)]),
             Obj([fees |-> Num(21)])}
      [] url.ep = "tokens/metadata" ->
            {Null, Obj(NoFields), Obj([name |-> Str("token")])}
      [] url.ep = "search" -> SearchBodies
      [] url.ep = "simple/price" ->
            {Obj(NoFields), Obj(url.arg :> Obj(NoFields)),
             Obj(url.arg :> Obj([usd |-> Num(0)])),
             Obj(url.arg :> Obj([usd |-> Num(64000)]))}
      [] url.ep = "nfts" ->
            {Obj(NoFields), Obj([floor_price |-> Null]),
             Obj([floor_price |-> Obj([usd |-> Null])]),
             Obj([floor_price |-> Obj([usd |-> Num(3)])])}
      [] url.ep = "coins" ->
            {Obj(NoFields), Obj([market_data |-> Null]),
             Obj([market_data |->
                    Obj([fully_diluted_valuation |-> Obj([usd |-> Num(900)])])])}
      [] url.ep = "coins/markets" ->
            {List(<<>>), List(<<Obj(NoFields)>>),
             List(<<Obj([market_cap |-> Null])>>),
             List(<<Obj([market_cap |-> Num(7)])>>)}
      [] url.ep = "protocols" -> ProtocolsBodies
      [] url.ep = "tvl" -> {Null, List(<<>>), Num(100)}

Ok(body) == [status |-> "ok", body |-> body]
ConnError == [status |-> "conn_error"]
HttpError == [status |-> "http_error"]
Unknown == [status |-> "unknown"]

Responses(url) == {ConnError, HttpError} \cup {Ok(b) : b \in Bodies(url)}

Urls ==
    {BalanceUrl(q) : q \in Queries} \cup {TransactionsUrl(q) : q \in Queries}
    \cup {GasFeesUrl(q) : q \in Queries} \cup {MetadataUrl(q) : q \in Queries}
    \cup {SearchUrl(q) : q \in Queries}
    \cup {PriceUrl(c) : c \in {"aave", "btc"}} \cup {NftUrl("punks")}
    \cup {CoinUrl(c) : c \in {"aave", "btc"}}
    \cup {MarketsUrl(c) : c \in {"aave", "btc"}}
    \cup {ProtocolsUrl} \cup {TvlUrl(s) : s \in {"aave-v2", "aave-v3", "lido"}}

\* what the provider may answer to a request for url
Answers(url) == IF provider[url] = Unknown THEN Responses(url) ELSE {provider[url]}

\* requests.get(url) followed by response.raise_for_status()
Transport(r) ==
    CASE r.status = "conn_error" -> Raise("ConnectionError")
      [] r.status = "http_error" -> Raise("HTTPError")
      [] OTHER -> Ret(r.body)

(***************************************************************************)
(* Data fetchers.  Each operator is the fetcher's code from its request    *)
(* on: r is the provider's response to that request.                       *)
(***************************************************************************)
get_wallet_balance(r) ==
    LET response == Transport(r) IN
    IF response.kind = "raise" THEN response
    ELSE GetItem(response.value, "balance")

get_transaction_history(r) ==
    LET response == Transport(r) IN
    IF response.kind = "raise" THEN response
    ELSE GetItem(response.value, "transactions")

get_gas_fees(r) ==
    LET response == Transport(r) IN
    IF response.kind = "raise" THEN response
    ELSE GetItem(response.value, "fees")

get_token_metadata(r) == Transport(r)

\* data[key][0]['id'], the list data[key] being non-empty
FirstId(list) ==
    LET first == GetFirst(list) IN
    IF first.kind = "raise" THEN first ELSE GetItem(first.value, "id")

\* get_coingecko_id with "return None" where the code raises ValueError
get_coingecko_id_lenient(r, ty) ==
    LET response == Transport(r) IN
    IF response.kind = "raise" THEN response
    ELSE LET data == response.value IN
         IF ty = "coin"
         THEN LET coins == GetItem(data, "coins") IN
              IF coins.kind = "raise" THEN coins
              ELSE IF Truthy(coins.value) THEN FirstId(coins.value) ELSE Ret(Null)
         ELSE IF ty = "nft"
         THEN LET nfts == DictGet(data, "nfts", Null) IN
              IF nfts.kind = "raise" THEN nfts
              ELSE IF Truthy(nfts.value) THEN FirstId(nfts.value) ELSE Ret(Null)
         ELSE Ret(Null)

get_coingecko_id(r, ty) ==
    LET response == Transport(r) IN
    IF response.kind = "raise" THEN response
    ELSE LET data == response.value IN
         IF ty = "coin"
         THEN LET coins == GetItem(data, "coins") IN
              IF coins.kind = "raise" THEN coins
              ELSE IF Truthy(coins.value) THEN FirstId(coins.value) ELSE Ret(Null)
         ELSE IF ty = "nft"
         THEN LET nfts == DictGet(data, "nfts", Null) IN
              IF nfts.kind = "raise" THEN nfts
              ELSE IF Truthy(nfts.value) THEN FirstId(nfts.value) ELSE Ret(Null)
         ELSE Raise("ValueError")

get_price(r, cid) ==
    LET response == Transport(r) IN
    IF response.kind = "raise" THEN response
    ELSE LET entry == GetItem(response.value, cid.s) IN
         IF entry.kind = "raise" THEN entry ELSE GetItem(entry.value, "usd")

get_floor_price(r) ==
    LET response == Transport(r) IN
    IF response.kind = "raise" THEN response
    ELSE LET floor == GetItem(response.value, "floor_price") IN
         IF floor.kind = "raise" THEN floor ELSE GetItem(floor.value, "usd")

get_fdv(r) ==
    LET response == Transport(r) IN
    IF response.kind = "raise" THEN response
    ELSE LET market == DictGet(response.value, "market_data", Obj(NoFields)) IN
         IF market.kind = "raise" THEN market
         ELSE LET fdv == DictGet(market.value, "fully_diluted_valuation", Obj(NoFields)) IN
              IF fdv.kind = "raise" THEN fdv ELSE DictGet(fdv.value, "usd", Null)

get_market_cap(r) ==
    LET response == Transport(r) IN
    IF response.kind = "raise" THEN response
    ELSE LET first == GetFirst(response.value) IN
         IF first.kind = "raise" THEN first ELSE GetItem(first.value, "market_cap")

\* [item[key] for item in data]: the values, or the first failure
Column(data, key) ==
    LET bad == {i \in 1..Len(data) : GetItem(data[i], key).kind = "raise"} IN
    IF bad # {}
    THEN GetItem(data[CHOOSE i \in bad : \A j \in bad : i <= j], key)
    ELSE [kind |-> "return", value |-> [i \in 1..Len(data) |-> GetItem(data[i], key).value]]

\* get_protocols_list with the transport failure swallowed: two empty lists
get_protocols_list_swallow(r) ==
    LET response == Transport(r) IN
    IF response.kind = "raise" THEN [kind |-> "return", slugs |-> <<>>, geckos |-> <<>>]
    ELSE LET slugs == Column(response.value.items, "slug")
             geckos == Column(response.value.items, "gecko_id") IN
         IF slugs.kind = "raise" THEN slugs
         ELSE IF geckos.kind = "raise" THEN geckos
         ELSE [kind |-> "return", slugs |-> slugs.value, geckos |-> geckos.value]

get_protocols_list(r) ==
    LET response == Transport(r) IN
    IF response.kind = "raise" THEN response
    ELSE LET slugs == Column(response.value.items, "slug")
             geckos == Column(response.value.items, "gecko_id") IN
         IF slugs.kind = "raise" THEN slugs
         ELSE IF geckos.kind = "raise" THEN geckos
         ELSE [kind |-> "return", slugs |-> slugs.value, geckos |-> geckos.value]

\* the last matching protocol instead of the first
FirstMatch_last(ids, geckos, tag) ==
    LET n == IF Len(ids) < Len(geckos) THEN Len(ids) ELSE Len(geckos)
        hits == {k \in 1..n : geckos[k] = tag} IN
    IF hits = {} THEN Null ELSE ids[CHOOSE k \in hits : \A m \in hits : k >= m]

\* next((i for i, j in zip(id, gecko) if j == tag), None)
FirstMatch(ids, geckos, tag) ==
    LET n == IF Len(ids) < Len(geckos) THEN Len(ids) ELSE Len(geckos)
        hits == {k \in 1..n : geckos[k] = tag} IN
    IF hits = {} THEN Null ELSE ids[CHOOSE k \in hits : \A m \in hits : k <= m]

get_protocol_tvl(r) == Transport(r)

(***************************************************************************)
(* Presentation adapters.  f is the fetcher's outcome; the result is the   *)
(* string the adapter returns (a fixed message, or a template with the     *)
(* values formatted into it) or the exception it lets through.             *)
(***************************************************************************)
Msg(m) == [kind |-> "string", msg |-> m, args |-> <<>>]
Sentence(m, args) == [kind |-> "string", msg |-> m, args |-> args]

\* get_wallet_balance_tool with "if not balance" for "if balance is None"
get_wallet_balance_tool_falsy(wallet_address, f) ==
    IF f.kind = "raise"
    THEN IF IsRequestException(f.exc)
         THEN Msg("API error occurred while retrieving wallet balance.")
         ELSE f
    ELSE IF ~Truthy(f.value)
         THEN Msg("Failed to retrieve wallet balance.")
         ELSE Sentence("Wallet balance for {wallet_address} on {blockchain}: {balance}",
                       <<Str(wallet_address), Str(Blockchain), f.value>>)

get_wallet_balance_tool(wallet_address, f) ==
    IF f.kind = "raise"
    THEN IF IsRequestException(f.exc)
         THEN Msg("API error occurred while retrieving wallet balance.")
         ELSE f
    ELSE IF f.value = Null
         THEN Msg("Failed to retrieve wallet balance.")
         ELSE Sentence("Wallet balance for {wallet_address} on {blockchain}: {balance}",
                       <<Str(wallet_address), Str(Blockchain), f.value>>)

get_gas_fees_tool(blockchain, f) ==
    IF f.kind = "raise"
    THEN IF IsRequestException(f.exc)
         THEN Msg("API error occurred while retrieving gas fees.")
         ELSE f
    ELSE IF f.value = Null
         THEN Msg("Failed to retrieve gas fees.")
         ELSE Sentence("Current gas fees on {blockchain}: {fees}",
                       <<Str(blockchain), f.value>>)

get_token_metadata_tool(token_id, f) ==
    IF f.kind = "raise"
    THEN Msg("API error occurred while retrieving token metadata.")
    ELSE IF f.value = Null
         THEN Msg("Failed to retrieve token metadata.")
         ELSE Sentence("Metadata for token {token_id} on {blockchain}: {metadata}",
                       <<Str(token_id), Str(Blockchain), f.value>>)

\* get_transaction_history_tool with "except RequestException" for "except Exception"
get_transaction_history_tool_narrow(wallet_address, f) ==
    IF f.kind = "raise"
    THEN IF IsRequestException(f.exc)
         THEN Msg("API error occurred while retrieving transaction history.")
         ELSE f
    ELSE IF f.value = Null
         THEN Msg("No transactions found for this address.")
         ELSE LET n == PyLen(f.value) IN
              IF n.kind = "raise"
              THEN n
              ELSE IF n.value = Num(0)
                   THEN Msg("No transactions found for this address.")
                   ELSE Sentence("Transaction history for {wallet_address} on {blockchain}: {transactions}",
                                 <<Str(wallet_address), Str(Blockchain), f.value>>)

get_transaction_history_tool(wallet_address, f) ==
    IF f.kind = "raise"
    THEN Msg("API error occurred while retrieving transaction history.")
    ELSE IF f.value = Null
         THEN Msg("No transactions found for this address.")
         ELSE LET n == PyLen(f.value) IN
              IF n.kind = "raise"
              THEN Msg("API error occurred while retrieving transaction history.")
              ELSE IF n.value = Num(0)
                   THEN Msg("No transactions found for this address.")
                   ELSE Sentence("Transaction history for {wallet_address} on {blockchain}: {transactions}",
                                 <<Str(wallet_address), Str(Blockchain), f.value>>)

get_coin_price_tool(coin_name, f) ==
    IF f.kind = "raise"
    THEN IF IsRequestException(f.exc) THEN Msg("Config.API_ERROR_MESSAGE") ELSE f
    ELSE IF f.value = Null
         THEN Msg("Config.PRICE_FAILURE_MESSAGE")
         ELSE Sentence("Config.PRICE_SUCCESS_MESSAGE", <<Str(coin_name), f.value>>)

get_nft_floor_price_tool(nft_name, f) ==
    IF f.kind = "raise"
    THEN IF IsRequestException(f.exc) THEN Msg("Config.API_ERROR_MESSAGE") ELSE f
    ELSE IF f.value = Null
         THEN Msg("Config.FLOOR_PRICE_FAILURE_MESSAGE")
         ELSE Sentence("Config.FLOOR_PRICE_SUCCESS_MESSAGE", <<Str(nft_name), f.value>>)

\* get_protocol_total_value_locked_tool without its "except" clause
get_protocol_total_value_locked_tool_uncaught(protocol_name, f) ==
    IF f.kind = "raise"
    THEN f
    ELSE IF f.value = Null
         THEN Msg("Config.TVL_FAILURE_MESSAGE")
         ELSE Sentence("Config.TVL_SUCCESS_MESSAGE", <<Str(protocol_name), f.value>>)

get_protocol_total_value_locked_tool(protocol_name, f) ==
    IF f.kind = "raise"
    THEN IF IsRequestException(f.exc) THEN Msg("Config.API_ERROR_MESSAGE") ELSE f
    ELSE IF f.value = Null
         THEN Msg("Config.TVL_FAILURE_MESSAGE")
         ELSE Sentence("Config.TVL_SUCCESS_MESSAGE", <<Str(protocol_name), f.value>>)

\* get_fully_diluted_valuation_tool with a request budget kept across invocations:
\* it answers once and reports an API error afterwards
get_fully_diluted_valuation_tool_budget(coin_name, f) ==
    IF calls > 0
    THEN Msg("Config.API_ERROR_MESSAGE")
    ELSE IF f.kind = "raise"
    THEN IF IsRequestException(f.exc) THEN Msg("Config.API_ERROR_MESSAGE") ELSE f
    ELSE IF f.value = Null
         THEN Msg("Config.FDV_FAILURE_MESSAGE")
         ELSE Sentence("Config.FDV_SUCCESS_MESSAGE", <<Str(coin_name), f.value>>)

get_fully_diluted_valuation_tool(coin_name, f) ==
    IF f.kind = "raise"
    THEN IF IsRequestException(f.exc) THEN Msg("Config.API_ERROR_MESSAGE") ELSE f
    ELSE IF f.value = Null
         THEN Msg("Config.FDV_FAILURE_MESSAGE")
         ELSE Sentence("Config.FDV_SUCCESS_MESSAGE", <<Str(coin_name), f.value>>)

get_coin_market_cap_tool(coin_name, f) ==
    IF f.kind = "raise"
    THEN IF IsRequestException(f.exc) THEN Msg("Config.API_ERROR_MESSAGE") ELSE f
    ELSE IF f.value = Null
         THEN Msg("Config.MARKET_CAP_FAILURE_MESSAGE")
         ELSE Sentence("Config.MARKET_CAP_SUCCESS_MESSAGE", <<Str(coin_name), f.value>>)

\* the adapters of get_tools()
Adapters ==
    {"get_coin_price_tool", "get_nft_floor_price_tool",
     "get_protocol_total_value_locked_tool", "get_fully_diluted_valuation_tool",
     "get_coin_market_cap_tool", "get_wallet_balance_tool", "get_gas_fees_tool",
     "get_token_metadata_tool", "get_transaction_history_tool"}

\* adapters whose fetcher resolves a name through get_coingecko_id
NameTools ==
    {"get_coin_price_tool", "get_nft_floor_price_tool",
     "get_protocol_total_value_locked_tool", "get_fully_diluted_valuation_tool",
     "get_coin_market_cap_tool"}

\* adapters with "except Exception"
BroadCatch == {"get_token_metadata_tool", "get_transaction_history_tool"}

\* the type argument the fetcher of adapter t passes to get_coingecko_id
ResolveType(t) == IF t = "get_nft_floor_price_tool" THEN "nft" ELSE "coin"

\* the data endpoint the fetcher of adapter t requests
DataUrl(t, q, cid, pid) ==
    CASE t = "get_wallet_balance_tool" -> BalanceUrl(q)
      [] t = "get_transaction_history_tool" -> TransactionsUrl(q)
      [] t = "get_gas_fees_tool" -> GasFeesUrl(q)
      [] t = "get_token_metadata_tool" -> MetadataUrl(q)
      [] t = "get_coin_price_tool" -> PriceUrl(cid.s)
      [] t = "get_nft_floor_price_tool" -> NftUrl(cid.s)
      [] t = "get_fully_diluted_valuation_tool" -> CoinUrl(cid.s)
      [] t = "get_coin_market_cap_tool" -> MarketsUrl(cid.s)
      [] t = "get_protocol_total_value_locked_tool" -> TvlUrl(pid.s)

\* the fetcher of adapter t, from its data request on
Fetch(t, r, cid) ==
    CASE t = "get_wallet_balance_tool" -> get_wallet_balance(r)
      [] t = "get_transaction_history_tool" -> get_transaction_history(r)
      [] t = "get_gas_fees_tool" -> get_gas_fees(r)
      [] t = "get_token_metadata_tool" -> get_token_metadata(r)
      [] t = "get_coin_price_tool" -> get_price(r, cid)
      [] t = "get_nft_floor_price_tool" -> get_floor_price(r)
      [] t = "get_fully_diluted_valuation_tool" -> get_fdv(r)
      [] t = "get_coin_market_cap_tool" -> get_market_cap(r)
      [] t = "get_protocol_total_value_locked_tool" -> get_protocol_tvl(r)

\* adapter t applied to its fetcher's outcome
Adapt(t, q, f) ==
    CASE t = "get_wallet_balance_tool" -> get_wallet_balance_tool(q, f)
      [] t = "get_transaction_history_tool" -> get_transaction_history_tool(q, f)
      [] t = "get_gas_fees_tool" -> get_gas_fees_tool(q, f)
      [] t = "get_token_metadata_tool" -> get_token_metadata_tool(q, f)
      [] t = "get_coin_price_tool" -> get_coin_price_tool(q, f)
      [] t = "get_nft_floor_price_tool" -> get_nft_floor_price_tool(q, f)
      [] t = "get_fully_diluted_valuation_tool" -> get_fully_diluted_valuation_tool(q, f)
      [] t = "get_coin_market_cap_tool" -> get_coin_market_cap_tool(q, f)
      [] t = "get_protocol_total_value_locked_tool" ->
            get_protocol_total_value_locked_tool(q, f)

\* logging.error in a fetcher's "except RequestException" clause
FetcherLog(name, o) ==
    IF o.kind = "raise" /\ IsRequestException(o.exc) THEN <<name>> ELSE <<>>

\* logging.error in an adapter's "except Exception" clause
AdapterLog(t, f, out) ==
    IF t \in BroadCatch /\ out.msg \in
          {"API error occurred while retrieving token metadata.",
           "API error occurred while retrieving transaction history."}
    THEN <<t>> ELSE <<>>

(***************************************************************************)
(* State machine of the tool invocations.                                  *)
(***************************************************************************)
NoOutcome == [kind |-> "none"]
NoHistory == [t \in Adapters, q \in Queries |-> NoOutcome]
NoProvider == [u \in Urls |-> Unknown]

Init ==
    /\ pc = "idle"
    /\ tool = "none"
    /\ query = ""
    /\ type = ""
    /\ id = <<>>
    /\ gecko = <<>>
    /\ coin_id = Null
    /\ protocol_id = Null
    /\ fetched = NoOutcome
    /\ sent = <<>>
    /\ errlog = <<>>
    /\ output = NoOutcome
    /\ provider = NoProvider
    /\ calls = 0
    /\ history = NoHistory
    /\ sim_cos = <<>>
    /\ sim_ratio = <<>>
    /\ sim_order = "index"
    /\ sim_res = <<>>
    /\ sim_out = 0

\* the agent framework calls adapter t with argument q
Invoke(t, q) ==
    /\ pc = "idle"
    /\ tool' = t
    /\ query' = q
    /\ type' = IF t \in NameTools THEN ResolveType(t) ELSE ""
    /\ pc' = IF t = "get_protocol_total_value_locked_tool" THEN "protocols"
             ELSE IF t \in NameTools THEN "search" ELSE "data"
    /\ id' = <<>>
    /\ gecko' = <<>>
    /\ coin_id' = Null
    /\ protocol_id' = Null
    /\ fetched' = NoOutcome
    /\ sent' = <<>>
    /\ errlog' = <<>>
    /\ output' = NoOutcome
    /\ UNCHANGED <<provider, calls, history>>
    /\ UNCHANGED simVars

\* get_protocol_tvl: id, gecko = get_protocols_list()
RequestProtocols ==
    /\ pc = "protocols"
    /\ \E r \in Answers(ProtocolsUrl) :
          LET o == get_protocols_list(r) IN
          /\ provider' = [provider EXCEPT ![ProtocolsUrl] = r]
          /\ sent' = Append(sent, ProtocolsUrl)
          /\ errlog' = errlog \o FetcherLog("get_protocols_list", o)
          /\ id' = IF o.kind = "raise" THEN id ELSE o.slugs
          /\ gecko' = IF o.kind = "raise" THEN gecko ELSE o.geckos
          /\ fetched' = IF o.kind = "raise" THEN o ELSE fetched
          /\ pc' = IF o.kind = "raise" THEN "adapter" ELSE "search"
    /\ UNCHANGED <<tool, query, type, coin_id, protocol_id, output, calls, history>>
    /\ UNCHANGED simVars

\* get_coingecko_id(query, type) and what its caller does with the result,
\* up to the caller's own request
RequestSearch ==
    /\ pc = "search"
    /\ \E r \in Answers(SearchUrl(query)) :
          LET o == get_coingecko_id(r, type)
              found == o.kind = "return" /\ Truthy(o.value)
              match == IF found /\ tool = "get_protocol_total_value_locked_tool"
                       THEN FirstMatch(id, gecko, o.value) ELSE Null
              go == IF tool = "get_protocol_total_value_locked_tool"
                    THEN found /\ Truthy(match) ELSE found
          IN
          /\ provider' = [provider EXCEPT ![SearchUrl(query)] = r]
          /\ sent' = Append(sent, SearchUrl(query))
          /\ errlog' = errlog \o FetcherLog("get_coingecko_id", o)
          /\ coin_id' = IF o.kind = "return" THEN o.value ELSE coin_id
          /\ protocol_id' = match
          /\ fetched' = IF tool = "get_coingecko_id" \/ o.kind = "raise" THEN o
                         ELSE IF go THEN fetched ELSE Ret(Null)
          /\ pc' = IF tool = "get_coingecko_id" THEN "return"
                   ELSE IF go THEN "data" ELSE "adapter"
    /\ UNCHANGED <<tool, query, type, id, gecko, output, calls, history>>
    /\ UNCHANGED simVars

\* the fetcher's request to its data endpoint and the extraction of the result
RequestData ==
    /\ pc = "data"
    /\ LET url == DataUrl(tool, query, coin_id, protocol_id) IN
       \E r \in Answers(url) :
          LET o == Fetch(tool, r, coin_id) IN
          /\ provider' = [provider EXCEPT ![url] = r]
          /\ sent' = Append(sent, url)
          /\ errlog' = errlog \o FetcherLog(tool, o)
          /\ fetched' = o
          /\ pc' = "adapter"
    /\ UNCHANGED <<tool, query, type, id, gecko, coin_id, protocol_id, output,
                   calls, history>>
    /\ UNCHANGED simVars

\* the adapter turns the fetcher's outcome into its own and returns
AdapterReturn ==
    /\ pc = "adapter"
    /\ LET out == Adapt(tool, query, fetched) IN
       /\ output' = out
       /\ errlog' = IF out.kind = "string" THEN errlog \o AdapterLog(tool, fetched, out)
                     ELSE errlog
       /\ history' = IF history[tool, query] = NoOutcome
                      THEN [history EXCEPT ![tool, query] = out] ELSE history
    /\ pc' = "idle"
    /\ calls' = calls + 1
    /\ id' = <<>>
    /\ gecko' = <<>>
    /\ coin_id' = Null
    /\ protocol_id' = Null
    /\ UNCHANGED <<tool, query, type, fetched, sent, provider>>
    /\ UNCHANGED simVars

\* the providers' data changes between two invocations
ProviderChange ==
    /\ pc = "idle"
    /\ calls > 0
    /\ provider' = NoProvider
    /\ calls' = 0
    /\ history' = NoHistory
    /\ UNCHANGED <<pc, tool, query, type, id, gecko, coin_id, protocol_id, fetched,
                   sent, errlog, output>>
    /\ UNCHANGED simVars

\* an invocation against a provider state no earlier invocation has seen
InvokeFresh == calls = 0 /\ \E t \in Adapters, q \in Queries : Invoke(t, q)

Next ==
    \/ InvokeFresh
    \/ RequestProtocols
    \/ RequestSearch
    \/ RequestData
    \/ AdapterReturn
    \/ ProviderChange

Spec == Init /\ [][Next]_vars

(***************************************************************************)
(* Repeated invocations against one provider state: the provider never     *)
(* changes, so a URL requested again gets the response it got before.  Any *)
(* adapters are invoked with any inputs, in any order, and then one of     *)
(* these invocations is made again.                                        *)
(***************************************************************************)
\* the last invocation the bound allows repeats the inputs of an earlier one
InvokeAgain ==
    /\ calls < MaxInvocations
    /\ \E t \in Adapters, q \in Queries :
          /\ calls + 1 < MaxInvocations \/ history[t, q] # NoOutcome
          /\ Invoke(t, q)

NextStable ==
    \/ InvokeAgain
    \/ RequestProtocols
    \/ RequestSearch
    \/ RequestData
    \/ AdapterReturn

SpecStable == Init /\ [][NextStable]_vars

(***************************************************************************)
(* get_coingecko_id called on its own, with any type argument.             *)
(***************************************************************************)
Types == {"coin", "nft", "token"}

CallResolver(text, ty) ==
    /\ pc = "idle"
    /\ calls = 0
    /\ tool' = "get_coingecko_id"
    /\ query' = text
    /\ type' = ty
    /\ pc' = "search"
    /\ id' = <<>>
    /\ gecko' = <<>>
    /\ coin_id' = Null
    /\ protocol_id' = Null
    /\ fetched' = NoOutcome
    /\ sent' = <<>>
    /\ errlog' = <<>>
    /\ output' = NoOutcome
    /\ UNCHANGED <<provider, calls, history>>
    /\ UNCHANGED simVars

\* get_coingecko_id returns to its caller, or its exception reaches the caller
ResolverReturn ==
    /\ pc = "return"
    /\ output' = fetched
    /\ pc' = "idle"
    /\ calls' = calls + 1
    /\ coin_id' = Null
    /\ protocol_id' = Null
    /\ UNCHANGED <<tool, query, type, id, gecko, fetched, sent, errlog, provider, history>>
    /\ UNCHANGED simVars

NextResolver ==
    \/ \E text \in Queries, ty \in Types : CallResolver(text, ty)
    \/ RequestSearch
    \/ ResolverReturn
    \/ ProviderChange

SpecResolver == Init /\ [][NextResolver]_vars

(***************************************************************************)
(* get_most_similar(text, data).  The candidates are data[1..n]; the       *)
(* vectorizer's cosine similarity and SequenceMatcher's ratio enter as     *)
(* scores per candidate, of which the code uses only the order.            *)
(***************************************************************************)
\* the 20 of "[-20:]"
TopK == 20
\* candidate lists up to this length get every combination of scores
SmallLen == 3

Scores == 0..MaxScore

ScoreSeqs(n) ==
    IF n <= SmallLen
    THEN [1..n -> Scores]
    ELSE {[i \in 1..n |-> (a * i + b) % (MaxScore + 1)] : a \in Scores, b \in Scores}
         \cup (IF n <= TopK THEN {}
               ELSE {[i \in 1..n |-> IF i = k THEN 0 ELSE 1] : k \in 1..n}
                    \cup {[i \in 1..n |-> IF i = k THEN 1 ELSE 0] : k \in 1..n})

\* similarity_scores.argsort()[0]: the indices in ascending order of score;
\* numpy leaves the order of equal scores to the sort it uses
Argsort(score, order) ==
    LET n == Len(score)
        Before(j, i) ==
            \/ score[j] < score[i]
            \/ score[j] = score[i] /\ (IF order = "index" THEN j < i ELSE j > i)
        Rank(i) == Cardinality({j \in 1..n : Before(j, i)})
    IN [k \in 1..n |-> CHOOSE i \in 1..n : Rank(i) = k - 1]

\* s[-20:]
Last(s, k) == IF Len(s) <= k THEN s ELSE SubSeq(s, Len(s) - k + 1, Len(s))

\* s[::-1]
Reversed(s) == [k \in 1..Len(s) |-> s[Len(s) + 1 - k]]

\* "[:20]" for "[-20:]": the 20 lowest scores
TopIndices_lowest(score, order) ==
    Reversed(SubSeq(Argsort(score, order), 1,
                    IF Len(score) < TopK THEN Len(score) ELSE TopK))

\* top_indices = similarity_scores.argsort()[0][-20:][::-1]
TopIndices(score, order) == Reversed(Last(Argsort(score, order), TopK))

\* max(range(len(sim)), key=sim.__getitem__): the first index of the largest value
MaxIndex(sim) ==
    CHOOSE k \in 1..Len(sim) :
        /\ \A m \in 1..Len(sim) : sim[m] <= sim[k]
        /\ \A m \in 1..(k - 1) : sim[m] < sim[k]

InitSimilar ==
    /\ pc = "idle"
    /\ tool = "get_most_similar"
    /\ query = ""
    /\ type = ""
    /\ id = <<>>
    /\ gecko = <<>>
    /\ coin_id = Null
    /\ protocol_id = Null
    /\ fetched = NoOutcome
    /\ sent = <<>>
    /\ errlog = <<>>
    /\ output = NoOutcome
    /\ provider = NoProvider
    /\ calls = 0
    /\ history = NoHistory
    /\ \E n \in 1..MaxCandidates :
          /\ sim_cos \in ScoreSeqs(n)
          /\ sim_ratio \in ScoreSeqs(n)
    /\ sim_order \in {"index", "reverse"}
    /\ sim_res = <<>>
    /\ sim_out = 0

\* lines 61-67: narrow data to the candidates of top_indices
Narrow ==
    /\ sim_res = <<>>
    /\ sim_out = 0
    /\ sim_res' = TopIndices(sim_cos, sim_order)
    /\ UNCHANGED <<sim_cos, sim_ratio, sim_order, sim_out>>
    /\ UNCHANGED toolVars

\* lines 68-70: re-rank res by ratio and return the best
Rerank ==
    /\ sim_res # <<>>
    /\ sim_out = 0
    /\ LET sim == [k \in 1..Len(sim_res) |-> sim_ratio[sim_res[k]]] IN
       sim_out' = sim_res[MaxIndex(sim)]
    /\ UNCHANGED <<sim_cos, sim_ratio, sim_order, sim_res>>
    /\ UNCHANGED toolVars

NextSimilar == Narrow \/ Rerank

SpecSimilar == InitSimilar /\ [][NextSimilar]_vars

(***************************************************************************)
(* Properties.                                                             *)
(***************************************************************************)
\* an invocation has returned (or failed) and the provider has not changed since
Returned == pc = "idle" /\ calls > 0

\* the fixed message of adapter t's "except" clause
ApiErrorMessage(t) ==
    CASE t = "get_wallet_balance_tool" -> "API error occurred while retrieving wallet balance."
      [] t = "get_gas_fees_tool" -> "API error occurred while retrieving gas fees."
      [] t = "get_token_metadata_tool" -> "API error occurred while retrieving token metadata."
      [] t = "get_transaction_history_tool" ->
            "API error occurred while retrieving transaction history."
      [] OTHER -> "Config.API_ERROR_MESSAGE"

\* the fixed message adapter t returns when there is no data
NoDataMessage(t) ==
    CASE t = "get_wallet_balance_tool" -> "Failed to retrieve wallet balance."
      [] t = "get_gas_fees_tool" -> "Failed to retrieve gas fees."
      [] t = "get_token_metadata_tool" -> "Failed to retrieve token metadata."
      [] t = "get_transaction_history_tool" -> "No transactions found for this address."
      [] t = "get_coin_price_tool" -> "Config.PRICE_FAILURE_MESSAGE"
      [] t = "get_nft_floor_price_tool" -> "Config.FLOOR_PRICE_FAILURE_MESSAGE"
      [] t = "get_protocol_total_value_locked_tool" -> "Config.TVL_FAILURE_MESSAGE"
      [] t = "get_fully_diluted_valuation_tool" -> "Config.FDV_FAILURE_MESSAGE"
      [] t = "get_coin_market_cap_tool" -> "Config.MARKET_CAP_FAILURE_MESSAGE"

\* the request for url ended in a connection error or a non-2xx status
Failed(url) == provider[url].status \in {"conn_error", "http_error"}

\* the search request of the invocation was answered with a 2xx response
SearchAnswered ==
    /\ \E i \in 1..Len(sent) : sent[i] = SearchUrl(query)
    /\ provider[SearchUrl(query)].status = "ok"

\* the key of the search response that holds the entries of the requested kind
KindKey == IF type = "coin" THEN "coins" ELSE "nfts"

\* the search response has a non-empty list for the requested kind
KindListed ==
    LET body == provider[SearchUrl(query)].body IN
    KindKey \in DOMAIN body.f /\ Len(body.f[KindKey].items) > 0

\* endpoints that deliver the data of a lookup-by-name fetcher
DataEndpoints == {"simple/price", "coins", "coins/markets", "nfts", "tvl"}

\* C1: whenever a request of an adapter's invocation ends in a connection error
\* or a non-2xx status, the fetcher raises a transport exception and the adapter
\* returns its fixed API-error message instead of raising.
C1_TransportFailureBecomesApiError ==
    (Returned /\ tool \in Adapters) =>
        \A i \in 1..Len(sent) :
            Failed(sent[i]) =>
                /\ fetched.kind = "raise"
                /\ IsRequestException(fetched.exc)
                /\ output = Msg(ApiErrorMessage(tool))

C1_Witness ==
    /\ Returned
    /\ tool = "get_protocol_total_value_locked_tool"
    /\ Len(sent) = 3
    /\ Failed(sent[3])
    /\ output = Msg("Config.API_ERROR_MESSAGE")

\* C2: when the search response of a lookup-by-name fetcher has an empty or absent
\* list for the requested kind, the fetcher returns None, the adapter returns its
\* no-data message and the data endpoint is not requested.
C2_EmptySearchYieldsNoData ==
    (Returned /\ tool \in NameTools /\ SearchAnswered /\ ~KindListed) =>
        /\ fetched = Ret(Null)
        /\ output = Msg(NoDataMessage(tool))
        /\ \A i \in 1..Len(sent) : sent[i].ep \notin DataEndpoints

\* C3: get_coingecko_id with type coin or nft and a 2xx search response returns the
\* id of the first entry of the list for that kind, and None when that list is
\* empty or absent.
C3_FirstIdOrNone ==
    (Returned /\ tool = "get_coingecko_id" /\ type \in {"coin", "nft"}
        /\ SearchAnswered) =>
        IF KindListed
        THEN output = Ret(provider[SearchUrl(query)].body.f[KindKey].items[1].f.id)
        ELSE output = Ret(Null)

\* C4 as stated: get_coingecko_id with a type other than coin or nft ends in
\* ValueError whatever the outcome of the search request.
C4_AlwaysValueError ==
    (Returned /\ tool = "get_coingecko_id" /\ type \notin {"coin", "nft"}) =>
        output = Raise("ValueError")

\* C4 as amended: get_coingecko_id with a type other than coin or nft never
\* returns; it ends in ValueError when the search request got a 2xx response,
\* whatever the response holds, and in the request's transport exception otherwise.
C4_ValueErrorAfterSearch ==
    (Returned /\ tool = "get_coingecko_id" /\ type \notin {"coin", "nft"}) =>
        /\ Len(sent) = 1
        /\ output.kind = "raise"
        /\ (provider[sent[1]].status = "ok" => output = Raise("ValueError"))
        /\ (provider[sent[1]].status = "conn_error" => output = Raise("ConnectionError"))
        /\ (provider[sent[1]].status = "http_error" => output = Raise("HTTPError"))

C4_Witness ==
    /\ Returned
    /\ tool = "get_coingecko_id"
    /\ type = "token"
    /\ provider[SearchUrl(query)] = Ok(Obj([coins |-> List(<<Entry("aave")>>)]))
    /\ output = Raise("ValueError")

\* C5: get_protocol_tvl requests the TVL endpoint for the slug of the first
\* protocol whose gecko_id equals the resolved id and returns its payload; when
\* no protocol has that gecko_id it returns None and never requests the endpoint.
C5_FirstMatchingSlug ==
    (Returned /\ tool = "get_protocol_total_value_locked_tool"
        /\ SearchAnswered /\ KindListed) =>
        LET protocols == provider[ProtocolsUrl].body.items
            resolved == provider[SearchUrl(query)].body.f.coins.items[1].f.id
            hits == {k \in 1..Len(protocols) : protocols[k].f.gecko_id = resolved}
        IN IF hits = {}
           THEN /\ fetched = Ret(Null)
                /\ \A i \in 1..Len(sent) : sent[i].ep # "tvl"
           ELSE LET first == CHOOSE k \in hits : \A m \in hits : k <= m
                    url == TvlUrl(protocols[first].f.slug.s)
                IN /\ Len(sent) = 3
                   /\ sent[3] = url
                   /\ provider[url].status = "ok" => fetched = Ret(provider[url].body)

C5_Witness ==
    /\ Returned
    /\ tool = "get_protocol_total_value_locked_tool"
    /\ sent = <<ProtocolsUrl, SearchUrl(query), TvlUrl("aave-v2")>>
    /\ Len(provider[ProtocolsUrl].body.items) = 3
    /\ fetched = Ret(Num(100))

\* C6 as stated: every adapter invocation issues exactly one HTTP request.
C6_ExactlyOneRequest ==
    (Returned /\ tool \in Adapters) => Len(sent) = 1

\* C6 as amended: an invocation issues one request for the wallet balance, gas
\* fees, token metadata and transaction history adapters; the search request and,
\* only when the name resolved, one data request for the price, floor price, FDV
\* and market cap adapters; the protocol list, then the search, then the TVL
\* request (one to three requests) for the TVL adapter.  No request follows a
\* failed one and no URL is requested twice.
C6_OneToThreeRequests ==
    (Returned /\ tool \in Adapters) =>
        /\ \A i \in 1..(Len(sent) - 1) : ~Failed(sent[i])
        /\ \A i, j \in 1..Len(sent) : sent[i] = sent[j] => i = j
        /\ tool \notin NameTools => Len(sent) = 1
        /\ (tool \in NameTools /\ tool # "get_protocol_total_value_locked_tool") =>
              /\ Len(sent) \in {1, 2}
              /\ sent[1] = SearchUrl(query)
              /\ Len(sent) = 2 <=> (SearchAnswered /\ KindListed)
        /\ tool = "get_protocol_total_value_locked_tool" =>
              /\ Len(sent) \in {1, 2, 3}
              /\ sent[1] = ProtocolsUrl
              /\ Failed(ProtocolsUrl) => Len(sent) = 1
              /\ Len(sent) >= 2 => sent[2] = SearchUrl(query)
              /\ Len(sent) = 3 => (SearchAnswered /\ KindListed /\ sent[3].ep = "tvl")

C6_Witness ==
    /\ Returned
    /\ tool = "get_coin_price_tool"
    /\ sent = <<SearchUrl(query), PriceUrl("btc")>>
    /\ output = Sentence("Config.PRICE_SUCCESS_MESSAGE", <<Str(query), Num(64000)>>)

C9_NonTransportFailures ==
    (Returned /\ tool \in Adapters /\ fetched.kind = "raise"
        /\ ~IsRequestException(fetched.exc)) =>
        IF tool \in BroadCatch
        THEN /\ output = Msg(ApiErrorMessage(tool))
             /\ \E i \in 1..Len(errlog) : errlog[i] = tool
        ELSE output = Raise(fetched.exc)

C9_Witness ==
    /\ Returned
    /\ tool = "get_transaction_history_tool"
    /\ fetched = Raise("KeyError")
    /\ output = Msg("API error occurred while retrieving transaction history.")
    /\ errlog = <<"get_transaction_history_tool">>

\* a result with nothing in it: an empty list, object or string
Empty(v) ==
    \/ v.t = "list" /\ Len(v.items) = 0
    \/ v.t = "obj" /\ DOMAIN v.f = {}
    \/ v.t = "str" /\ v.s = ""

\* the adapter's output is its success sentence, holding the query and the result
SuccessSentence ==
    /\ output.kind = "string"
    /\ output.msg \notin {ApiErrorMessage(tool), NoDataMessage(tool)}
    /\ output.args[1] = Str(query)
    /\ output.args[Len(output.args)] = fetched.value
    /\ tool \in {"get_wallet_balance_tool", "get_token_metadata_tool",
                  "get_transaction_history_tool"} => output.args[2] = Str(Blockchain)

Narrowed == {sim_res[k] : k \in 1..Len(sim_res)}

\* C8: for a non-empty candidate list get_most_similar returns an element of
\* data that is among the (at most) 20 candidates of highest cosine similarity
\* and has the largest ratio among them.
C8_BestOfTopTwenty ==
    sim_out # 0 =>
        LET n == Len(sim_cos)
            others == (1..n) \ Narrowed IN
        /\ sim_out \in 1..n
        /\ sim_out \in Narrowed
        /\ Cardinality(Narrowed) = (IF n < 20 THEN n ELSE 20)
        /\ \A i \in Narrowed, j \in others : sim_cos[j] <= sim_cos[i]
        /\ Cardinality({j \in 1..n : sim_cos[j] > sim_cos[sim_out]}) < 20
        /\ \A i \in Narrowed : sim_ratio[i] <= sim_ratio[sim_out]
        /\ (sim_cos = <<1, 0, 0>> /\ sim_ratio = <<2, 1, 0>>) => sim_out = 1

C8_Witness ==
    /\ Len(sim_cos) = 21
    /\ sim_out # 0
    /\ sim_out \in Narrowed
    /\ \E j \in 1..21 : j \notin Narrowed /\ sim_ratio[j] > sim_ratio[sim_out]

====
